---- MODULE Spec2Model ----
(***************************************************************************)
(* netcoredbg front end: main() of src/src/main.cpp as a state machine.    *)
(*                                                                         *)
(* The command line is an input: argc is fixed at start and every argv[i]  *)
(* is drawn from Pool at the moment the option scan reads it (each index   *)
(* is read at most once, so this is the same set of runs as fixing argv    *)
(* up front).  The engine (ManagedDebugger), the protocol variants and the *)
(* redirect server are external objects; the model records their           *)
(* construction, the calls main makes on them, in order, and their         *)
(* destruction when main returns.                                          *)
(***************************************************************************)
EXTENDS Integers, Sequences, FiniteSets, TLC

\* Largest argc explored (argv[0] plus MaxArgc - 1 tokens).
MaxArgc == 5

\* Largest number of events delivered to the sink in one run.
MaxEvents == 2

\* Largest argc explored together with the server's and the engine's threads.
MaxThreadArgc == 3

DEFAULT_SERVER_PORT == 4711

EXIT_SUCCESS == 0
EXIT_FAILURE == 1

\* HRESULT values the engine may return (signed 32 bit).
S_OK == 0
S_FALSE == 1
E_FAIL == -2147467259
HResults == {S_OK, S_FALSE, E_FAIL}
FAILED(hr) == hr < 0

\* uint16_t
UInt16Modulus == 65536

InterpreterMI == "InterpreterMI"
InterpreterVSCode == "InterpreterVSCode"
InterpreterCLI == "InterpreterCLI"

\* Command-line tokens the scan may meet.
Pool ==
    { "--attach", "7", "0", "", "7x",
      "--interpreter=mi", "--interpreter=vscode", "--interpreter=cli",
      "--engineLogging", "--engineLogging=x",
      "--help", "--buildinfo", "--version",
      "--log", "--log=x",
      "--server", "--server=0", "--server=4712", "--server=65536",
      "--server=70000", "--server=x", "--server=",
      "--", "prog", "--bogus" }

\* Tokens that may follow the positional separator.
ExecPool == { "prog", "", "--help", "--attach", "--bogus" }

\* Sequences over S of length exactly n.
SeqsOfLen(S, n) == [1..n -> S]

\* ------------------------------------------------------------------ strings

\* strcmp(a, b) == 0
StrEq(a, b) == a = b

\* strstr(a, p) == a : p is a prefix of a
HasPrefix(a, p) == Len(a) >= Len(p) /\ SubSeq(a, 1, Len(p)) = p

\* a + strlen(p)
After(a, p) == SubSeq(a, Len(p) + 1, Len(a))

IsDigit(c) == c \in {"0", "1", "2", "3", "4", "5", "6", "7", "8", "9"}

DigitVal(c) ==
    CASE c = "0" -> 0 [] c = "1" -> 1 [] c = "2" -> 2 [] c = "3" -> 3
      [] c = "4" -> 4 [] c = "5" -> 5 [] c = "6" -> 6 [] c = "7" -> 7
      [] c = "8" -> 8 [] c = "9" -> 9

RECURSIVE StrtoulFrom(_, _, _)
StrtoulFrom(s, k, acc) ==
    IF k <= Len(s) /\ IsDigit(SubSeq(s, k, k))
    THEN StrtoulFrom(s, k + 1, acc * 10 + DigitVal(SubSeq(s, k, k)))
    ELSE [value |-> acc, endp |-> k]

\* strtoul(s, &err, 10): the digits at the start of s are converted; with no
\* digit there is no conversion and err is s itself.  endp is the index err
\* points at, Len(s) + 1 being the terminating NUL.  (No token of Pool has
\* leading white space or a sign followed by a digit, and none overflows
\* unsigned long.)
Strtoul(s) == StrtoulFrom(s, 1, 0)

\* *err != 0
ErrNotNul(s, r) == r.endp <= Len(s)

\* static_cast<uint16_t>(v)
ToUInt16(v) == v % UInt16Modulus

\* ------------------------------------------------------------------- state

VARIABLES
    argc,             \* number of command-line words, argv[0] included
    i,                \* loop index of the option scan
    pc,               \* position of main
    pidDebuggee,
    interpreterType,
    engineLogging,
    logFilePath,
    serverPort,
    execFile,
    execArgs,
    logOutput,        \* environment variable LOG_OUTPUT
    debugger,         \* ManagedDebugger debugger
    protocol,         \* object held by std::unique_ptr<Protocol> protocol
    server,           \* object held by std::unique_ptr<IORedirectServer> server
    hresults,         \* <<call, HRESULT>> pairs the engine has returned
    calls,            \* constructions, calls and destructions, in order
    retval,           \* value of the return statement taken
    retLine,          \* source line of the return statement taken, 0 if none
    attachAccepted,   \* history: an --attach <pid> pair passed the scan
    lastServer,       \* history: the last --server option scanned, or "none"
    lastInterpreter,  \* history: the last --interpreter= option scanned, or "none"
    loggingSeen,      \* history: an --engineLogging option was scanned
    loggingThenInterp, \* history: an --interpreter= option followed an --engineLogging one
    sepAt,            \* history: index of the -- separator in argv, 0 if none
    afterSep,         \* history: the words that followed the separator
    redirected,       \* history: invocations of the redirect callbacks
    emitted,          \* events EmitOutputEvent / the engine delivered to the sink
    dangling          \* the engine used its sink pointer after the sink's destruction

vars ==
    << argc, i, pc, pidDebuggee, interpreterType, engineLogging, logFilePath,
       serverPort, execFile, execArgs, logOutput, debugger, protocol, server,
       hresults, calls, retval, retLine, attachAccepted, lastServer,
       lastInterpreter, loggingSeen, loggingThenInterp, sepAt, afterSep,
       redirected, emitted, dangling >>

parseVars ==
    << pidDebuggee, interpreterType, engineLogging, logFilePath, serverPort,
       execFile, execArgs, logOutput, attachAccepted, lastServer >>

objVars == << debugger, protocol, server, hresults, calls >>

histVars == << lastInterpreter, loggingSeen, loggingThenInterp, sepAt, afterSep >>

ioVars == << redirected, emitted, dangling >>

NullProtocol ==
    [ state |-> "null", kind |-> "none", debuggerSet |-> FALSE,
      logging |-> FALSE, logPath |-> "", launchOp |-> "none",
      launchFile |-> "", launchArgs |-> << >> ]

NullServer == [ state |-> "null", port |-> 0, startOk |-> FALSE ]

NoDebugger == [ state |-> "none", sink |-> "null", pid |-> 0 ]

Init ==
    /\ argc \in 1..MaxArgc
    /\ i = 1
    /\ pc = "scan"
    /\ pidDebuggee = 0
    /\ interpreterType = InterpreterMI
    /\ engineLogging = FALSE
    /\ logFilePath = ""
    /\ serverPort = 0
    /\ execFile = ""
    /\ execArgs = << >>
    /\ logOutput = "unset"
    /\ debugger = NoDebugger
    /\ protocol = NullProtocol
    /\ server = NullServer
    /\ hresults = {}
    /\ calls = << >>
    /\ retval = EXIT_SUCCESS
    /\ retLine = 0
    /\ attachAccepted = FALSE
    /\ lastServer = "none"
    /\ lastInterpreter = "none"
    /\ loggingSeen = FALSE
    /\ loggingThenInterp = FALSE
    /\ sepAt = 0
    /\ afterSep = << >>
    /\ redirected = << >>
    /\ emitted = << >>
    /\ dangling = FALSE

\* return <status>; at source line <line>: the automatic objects are then
\* destroyed (see the Destroy actions) and the process exits with <status>.
Return(line, status) ==
    /\ pc' = "unwind"
    /\ retval' = status
    /\ retLine' = line

Running == pc' = pc /\ UNCHANGED << retval, retLine >>

\* ------------------------------------------------------------ option scan

\* for (int i = 1; i < argc; i++) : the loop is left when i >= argc.
ScanEnd ==
    /\ pc = "scan"
    /\ i >= argc
    /\ pc' = "L257"
    /\ UNCHANGED << argc, i, retval, retLine >>
    /\ UNCHANGED parseVars
    /\ UNCHANGED objVars
    /\ UNCHANGED histVars
    /\ UNCHANGED ioVars

\* --attach with no following word
OptAttachMissing ==
    /\ pc = "scan" /\ i < argc
    /\ \E tok \in Pool :
        /\ StrEq(tok, "--attach")
        /\ i + 1 >= argc
        /\ i' = i + 1
        /\ Return(140, EXIT_FAILURE)
    /\ UNCHANGED argc
    /\ UNCHANGED parseVars
    /\ UNCHANGED objVars
    /\ UNCHANGED histVars
    /\ UNCHANGED ioVars

\* --attach <word>  (pidDebuggee is a 32-bit DWORD; no token of Pool reaches
\* 2^32, so the conversion from unsigned long loses nothing here)
OptAttach ==
    /\ pc = "scan" /\ i < argc
    /\ \E tok \in Pool, word \in Pool :
        /\ StrEq(tok, "--attach")
        /\ i + 1 < argc
        /\ LET r == Strtoul(word) IN
            /\ pidDebuggee' = r.value
            /\ IF ErrNotNul(word, r)
               THEN /\ i' = i + 1
                    /\ Return(147, EXIT_FAILURE)
                    /\ UNCHANGED attachAccepted
               ELSE /\ i' = i + 2
                    /\ Running
                    /\ attachAccepted' = TRUE
    /\ UNCHANGED << argc, interpreterType, engineLogging, logFilePath,
                    serverPort, execFile, execArgs, logOutput, lastServer >>
    /\ UNCHANGED objVars
    /\ UNCHANGED histVars
    /\ UNCHANGED ioVars

InterpreterOf(tok) ==
    CASE StrEq(tok, "--interpreter=mi") -> InterpreterMI
      [] StrEq(tok, "--interpreter=vscode") -> InterpreterVSCode
      [] StrEq(tok, "--interpreter=cli") -> InterpreterCLI

IsInterpreterOpt(tok) ==
    \/ StrEq(tok, "--interpreter=mi")
    \/ StrEq(tok, "--interpreter=vscode")
    \/ StrEq(tok, "--interpreter=cli")

\* OptInterpreter where only the first --interpreter= option counts
OptInterpreter_FirstWins ==
    /\ pc = "scan" /\ i < argc
    /\ \E tok \in Pool :
        /\ IsInterpreterOpt(tok)
        /\ interpreterType' = IF lastInterpreter = "none"
                               THEN InterpreterOf(tok) ELSE interpreterType
        /\ lastInterpreter' = tok
    /\ i' = i + 1
    /\ Running
    /\ UNCHANGED << argc, pidDebuggee, engineLogging, logFilePath, serverPort,
                    execFile, execArgs, logOutput, attachAccepted, lastServer >>
    /\ UNCHANGED objVars
    /\ loggingThenInterp' = (loggingThenInterp \/ loggingSeen)
    /\ UNCHANGED << loggingSeen, sepAt, afterSep >>
    /\ UNCHANGED ioVars

\* OptInterpreter where choosing a mode clears the engine-logging request
OptInterpreter_ResetsLogging ==
    /\ pc = "scan" /\ i < argc
    /\ \E tok \in Pool :
        /\ IsInterpreterOpt(tok)
        /\ interpreterType' = InterpreterOf(tok)
        /\ lastInterpreter' = tok
    /\ engineLogging' = FALSE
    /\ i' = i + 1
    /\ Running
    /\ UNCHANGED << argc, pidDebuggee, logFilePath, serverPort,
                    execFile, execArgs, logOutput, attachAccepted, lastServer >>
    /\ UNCHANGED objVars
    /\ loggingThenInterp' = (loggingThenInterp \/ loggingSeen)
    /\ UNCHANGED << loggingSeen, sepAt, afterSep >>
    /\ UNCHANGED ioVars

\* --interpreter=mi | --interpreter=vscode | --interpreter=cli
OptInterpreter ==
    /\ pc = "scan" /\ i < argc
    /\ \E tok \in Pool :
        /\ IsInterpreterOpt(tok)
        /\ interpreterType' = InterpreterOf(tok)
        /\ lastInterpreter' = tok
    /\ i' = i + 1
    /\ Running
    /\ UNCHANGED << argc, pidDebuggee, engineLogging, logFilePath, serverPort,
                    execFile, execArgs, logOutput, attachAccepted, lastServer >>
    /\ UNCHANGED objVars
    /\ loggingThenInterp' = (loggingThenInterp \/ loggingSeen)
    /\ UNCHANGED << loggingSeen, sepAt, afterSep >>
    /\ UNCHANGED ioVars

\* --engineLogging
OptEngineLogging ==
    /\ pc = "scan" /\ i < argc
    /\ \E tok \in Pool : StrEq(tok, "--engineLogging")
    /\ engineLogging' = TRUE
    /\ i' = i + 1
    /\ Running
    /\ UNCHANGED << argc, pidDebuggee, interpreterType, logFilePath, serverPort,
                    execFile, execArgs, logOutput, attachAccepted, lastServer >>
    /\ UNCHANGED objVars
    /\ loggingSeen' = TRUE
    /\ UNCHANGED << lastInterpreter, loggingThenInterp, sepAt, afterSep >>
    /\ UNCHANGED ioVars

\* --engineLogging=<path>
OptEngineLoggingPath ==
    /\ pc = "scan" /\ i < argc
    /\ \E tok \in Pool :
        /\ HasPrefix(tok, "--engineLogging=")
        /\ logFilePath' = After(tok, "--engineLogging=")
    /\ engineLogging' = TRUE
    /\ i' = i + 1
    /\ Running
    /\ UNCHANGED << argc, pidDebuggee, interpreterType, serverPort,
                    execFile, execArgs, logOutput, attachAccepted, lastServer >>
    /\ UNCHANGED objVars
    /\ loggingSeen' = TRUE
    /\ UNCHANGED << lastInterpreter, loggingThenInterp, sepAt, afterSep >>
    /\ UNCHANGED ioVars

\* --help
OptHelp ==
    /\ pc = "scan" /\ i < argc
    /\ \E tok \in Pool : StrEq(tok, "--help")
    /\ Return(179, EXIT_SUCCESS)
    /\ UNCHANGED << argc, i >>
    /\ UNCHANGED parseVars
    /\ UNCHANGED objVars
    /\ UNCHANGED histVars
    /\ UNCHANGED ioVars

\* --buildinfo
OptBuildinfo ==
    /\ pc = "scan" /\ i < argc
    /\ \E tok \in Pool : StrEq(tok, "--buildinfo")
    /\ Return(184, EXIT_SUCCESS)
    /\ UNCHANGED << argc, i >>
    /\ UNCHANGED parseVars
    /\ UNCHANGED objVars
    /\ UNCHANGED histVars
    /\ UNCHANGED ioVars

\* --version
OptVersion ==
    /\ pc = "scan" /\ i < argc
    /\ \E tok \in Pool : StrEq(tok, "--version")
    /\ Return(192, EXIT_SUCCESS)
    /\ UNCHANGED << argc, i >>
    /\ UNCHANGED parseVars
    /\ UNCHANGED objVars
    /\ UNCHANGED histVars
    /\ UNCHANGED ioVars

\* --log : LOG_OUTPUT becomes <temp folder>/<basename of argv[0]>.<pid>.log
OptLog ==
    /\ pc = "scan" /\ i < argc
    /\ \E tok \in Pool : StrEq(tok, "--log")
    /\ logOutput' = "tmp/netcoredbg.pid.log"
    /\ i' = i + 1
    /\ Running
    /\ UNCHANGED << argc, pidDebuggee, interpreterType, engineLogging,
                    logFilePath, serverPort, execFile, execArgs,
                    attachAccepted, lastServer >>
    /\ UNCHANGED objVars
    /\ UNCHANGED histVars
    /\ UNCHANGED ioVars

\* --log=<type>
OptLogPath ==
    /\ pc = "scan" /\ i < argc
    /\ \E tok \in Pool :
        /\ HasPrefix(tok, "--log=")
        /\ logOutput' = After(tok, "--log=")
    /\ i' = i + 1
    /\ Running
    /\ UNCHANGED << argc, pidDebuggee, interpreterType, engineLogging,
                    logFilePath, serverPort, execFile, execArgs,
                    attachAccepted, lastServer >>
    /\ UNCHANGED objVars
    /\ UNCHANGED histVars
    /\ UNCHANGED ioVars

\* OptServer with the default port left out
OptServer_NoDefault ==
    /\ pc = "scan" /\ i < argc
    /\ \E tok \in Pool :
        /\ StrEq(tok, "--server")
        /\ lastServer' = tok
    /\ serverPort' = serverPort
    /\ i' = i + 1
    /\ Running
    /\ UNCHANGED << argc, pidDebuggee, interpreterType, engineLogging,
                    logFilePath, execFile, execArgs, logOutput,
                    attachAccepted >>
    /\ UNCHANGED objVars
    /\ UNCHANGED histVars
    /\ UNCHANGED ioVars

\* --server
OptServer ==
    /\ pc = "scan" /\ i < argc
    /\ \E tok \in Pool :
        /\ StrEq(tok, "--server")
        /\ lastServer' = tok
    /\ serverPort' = DEFAULT_SERVER_PORT
    /\ i' = i + 1
    /\ Running
    /\ UNCHANGED << argc, pidDebuggee, interpreterType, engineLogging,
                    logFilePath, execFile, execArgs, logOutput,
                    attachAccepted >>
    /\ UNCHANGED objVars
    /\ UNCHANGED histVars
    /\ UNCHANGED ioVars

\* --server=<port_num>
OptServerPort ==
    /\ pc = "scan" /\ i < argc
    /\ \E tok \in Pool :
        /\ HasPrefix(tok, "--server=")
        /\ LET s == After(tok, "--server=")
               r == Strtoul(s)
           IN  /\ serverPort' = ToUInt16(r.value)
               /\ IF ErrNotNul(s, r)
                  THEN /\ Return(226, EXIT_FAILURE)
                       /\ UNCHANGED << i, lastServer >>
                  ELSE /\ i' = i + 1
                       /\ Running
                       /\ lastServer' = tok
    /\ UNCHANGED << argc, pidDebuggee, interpreterType, engineLogging,
                    logFilePath, execFile, execArgs, logOutput,
                    attachAccepted >>
    /\ UNCHANGED objVars
    /\ UNCHANGED histVars
    /\ UNCHANGED ioVars

\* -- with nothing after it
OptSeparatorMissing ==
    /\ pc = "scan" /\ i < argc
    /\ \E tok \in Pool :
        /\ StrEq(tok, "--")
        /\ i + 1 >= argc
        /\ i' = i + 1
        /\ Return(240, EXIT_FAILURE)
    /\ UNCHANGED argc
    /\ UNCHANGED parseVars
    /\ UNCHANGED objVars
    /\ sepAt' = i
    /\ UNCHANGED << lastInterpreter, loggingSeen, loggingThenInterp, afterSep >>
    /\ UNCHANGED ioVars

\* OptSeparator that takes the program only and goes on scanning
OptSeparator_OneWord ==
    /\ pc = "scan" /\ i < argc
    /\ \E tok \in Pool :
        /\ StrEq(tok, "--")
        /\ i + 1 < argc
        /\ \E file \in ExecPool :
            /\ execFile' = file
            /\ afterSep' = << file >>
    /\ i' = i + 2
    /\ Running
    /\ UNCHANGED << argc, execArgs >>
    /\ UNCHANGED << pidDebuggee, interpreterType, engineLogging, logFilePath,
                    serverPort, logOutput, attachAccepted, lastServer >>
    /\ UNCHANGED objVars
    /\ sepAt' = i
    /\ UNCHANGED << lastInterpreter, loggingSeen, loggingThenInterp >>
    /\ UNCHANGED ioVars

\* -- <program> <arguments...> : everything up to argc is consumed, then break
OptSeparator ==
    /\ pc = "scan" /\ i < argc
    /\ \E tok \in Pool :
        /\ StrEq(tok, "--")
        /\ i + 1 < argc
        /\ \E file \in ExecPool, rest \in SeqsOfLen(ExecPool, argc - (i + 2)) :
            /\ execFile' = file
            /\ execArgs' = execArgs \o rest
            /\ afterSep' = << file >> \o rest
    /\ i' = argc
    /\ pc' = "L257"
    /\ UNCHANGED << argc, retval, retLine >>
    /\ UNCHANGED << pidDebuggee, interpreterType, engineLogging, logFilePath,
                    serverPort, logOutput, attachAccepted, lastServer >>
    /\ UNCHANGED objVars
    /\ sepAt' = i
    /\ UNCHANGED << lastInterpreter, loggingSeen, loggingThenInterp >>
    /\ UNCHANGED ioVars

IsKnownOpt(tok) ==
    \/ StrEq(tok, "--attach")
    \/ IsInterpreterOpt(tok)
    \/ StrEq(tok, "--engineLogging")
    \/ HasPrefix(tok, "--engineLogging=")
    \/ StrEq(tok, "--help")
    \/ StrEq(tok, "--buildinfo")
    \/ StrEq(tok, "--version")
    \/ StrEq(tok, "--log")
    \/ HasPrefix(tok, "--log=")
    \/ StrEq(tok, "--server")
    \/ HasPrefix(tok, "--server=")
    \/ StrEq(tok, "--")

\* anything else
OptUnknown ==
    /\ pc = "scan" /\ i < argc
    /\ \E tok \in Pool : ~IsKnownOpt(tok)
    /\ Return(251, EXIT_FAILURE)
    /\ UNCHANGED << argc, i >>
    /\ UNCHANGED parseVars
    /\ UNCHANGED objVars
    /\ UNCHANGED histVars
    /\ UNCHANGED ioVars

Scan ==
    \/ ScanEnd
    \/ OptAttachMissing
    \/ OptAttach
    \/ OptInterpreter
    \/ OptEngineLogging
    \/ OptEngineLoggingPath
    \/ OptHelp
    \/ OptBuildinfo
    \/ OptVersion
    \/ OptLog
    \/ OptLogPath
    \/ OptServer
    \/ OptServerPort
    \/ OptSeparatorMissing
    \/ OptSeparator
    \/ OptUnknown

\* ------------------------------------------------- objects and bootstrap

Called(op) == \E k \in 1..Len(calls) : calls[k] = op

\* number of times op occurs in calls
CountOf(op) == Cardinality({k \in 1..Len(calls) : calls[k] = op})

\* position of the first occurrence of op in calls, 0 if there is none
FirstOf(op) ==
    IF Called(op)
    THEN CHOOSE k \in 1..Len(calls) :
            /\ calls[k] = op
            /\ \A j \in 1..(k - 1) : calls[j] # op
    ELSE 0

\* ManagedDebugger debugger; std::unique_ptr<Protocol> protocol;
ConstructDebugger ==
    /\ pc = "L257"
    /\ debugger' = [NoDebugger EXCEPT !.state = "alive"]
    /\ calls' = Append(calls, "ManagedDebugger")
    /\ pc' = "L260"
    /\ UNCHANGED << argc, i, retval, retLine, protocol, server, hresults >>
    /\ UNCHANGED parseVars
    /\ UNCHANGED histVars
    /\ UNCHANGED ioVars

\* the object a variant's case block leaves behind protocol:
\* new <Variant>(); protocol.reset(...); SetDebugger(&debugger);
\* [EngineLogging(logFilePath);] [<launchOp>(execFile, execArgs);]
Variant(kind, launchOp) ==
    [ state |-> "alive",
      kind |-> kind,
      debuggerSet |-> TRUE,
      logging |-> (kind = "VSCodeProtocol" /\ engineLogging),
      logPath |-> IF kind = "VSCodeProtocol" /\ engineLogging
                  THEN logFilePath ELSE "",
      launchOp |-> IF execFile # "" THEN launchOp ELSE "none",
      launchFile |-> IF execFile # "" THEN execFile ELSE "",
      launchArgs |-> IF execFile # "" THEN execArgs ELSE << >> ]

VariantCalls(kind, launchOp) ==
    << kind, "SetDebugger" >>
    \o (IF kind = "VSCodeProtocol" /\ engineLogging
        THEN << "EngineLogging" >> ELSE << >>)
    \o (IF execFile # "" THEN << launchOp >> ELSE << >>)

\* case InterpreterMI:
SelectMI ==
    /\ pc = "L260"
    /\ interpreterType = InterpreterMI
    /\ IF engineLogging
       THEN /\ Return(269, EXIT_FAILURE)
            /\ UNCHANGED << protocol, calls >>
       ELSE /\ protocol' = Variant("MIProtocol", "SetLaunchCommand")
            /\ calls' = calls \o VariantCalls("MIProtocol", "SetLaunchCommand")
            /\ pc' = "L311"
            /\ UNCHANGED << retval, retLine >>
    /\ UNCHANGED << argc, i, debugger, server, hresults >>
    /\ UNCHANGED parseVars
    /\ UNCHANGED histVars
    /\ UNCHANGED ioVars

\* SelectVSCode pre-seeding the launch through SetLaunchCommand
SelectVSCode_SetLaunch ==
    /\ pc = "L260"
    /\ interpreterType = InterpreterVSCode
    /\ protocol' = Variant("VSCodeProtocol", "SetLaunchCommand")
    /\ calls' = calls \o VariantCalls("VSCodeProtocol", "SetLaunchCommand")
    /\ pc' = "L311"
    /\ UNCHANGED << argc, i, retval, retLine, debugger, server, hresults >>
    /\ UNCHANGED parseVars
    /\ UNCHANGED histVars
    /\ UNCHANGED ioVars

\* case InterpreterVSCode:
SelectVSCode ==
    /\ pc = "L260"
    /\ interpreterType = InterpreterVSCode
    /\ protocol' = Variant("VSCodeProtocol", "OverrideLaunchCommand")
    /\ calls' = calls \o VariantCalls("VSCodeProtocol", "OverrideLaunchCommand")
    /\ pc' = "L311"
    /\ UNCHANGED << argc, i, retval, retLine, debugger, server, hresults >>
    /\ UNCHANGED parseVars
    /\ UNCHANGED histVars
    /\ UNCHANGED ioVars

\* SelectCLI with the engine-logging check left out
SelectCLI_NoLoggingCheck ==
    /\ pc = "L260"
    /\ interpreterType = InterpreterCLI
    /\ protocol' = Variant("CLIProtocol", "SetLaunchCommand")
    /\ calls' = calls \o VariantCalls("CLIProtocol", "SetLaunchCommand")
    /\ pc' = "L311"
    /\ UNCHANGED << argc, i, retval, retLine, debugger, server, hresults >>
    /\ UNCHANGED parseVars
    /\ UNCHANGED histVars
    /\ UNCHANGED ioVars

\* case InterpreterCLI:
SelectCLI ==
    /\ pc = "L260"
    /\ interpreterType = InterpreterCLI
    /\ IF engineLogging
       THEN /\ Return(299, EXIT_FAILURE)
            /\ UNCHANGED << protocol, calls >>
       ELSE /\ protocol' = Variant("CLIProtocol", "SetLaunchCommand")
            /\ calls' = calls \o VariantCalls("CLIProtocol", "SetLaunchCommand")
            /\ pc' = "L311"
            /\ UNCHANGED << retval, retLine >>
    /\ UNCHANGED << argc, i, debugger, server, hresults >>
    /\ UNCHANGED parseVars
    /\ UNCHANGED histVars
    /\ UNCHANGED ioVars

\* SetProtocol left out: the engine is never given the sink
SetProtocol_Omitted ==
    /\ pc = "L311"
    /\ pc' = "L313"
    /\ UNCHANGED << argc, i, retval, retLine >>
    /\ UNCHANGED objVars
    /\ UNCHANGED parseVars
    /\ UNCHANGED histVars
    /\ UNCHANGED ioVars

\* debugger.SetProtocol(protocol.get());
SetProtocol ==
    /\ pc = "L311"
    /\ debugger' = [debugger EXCEPT !.sink = protocol.kind]
    /\ calls' = Append(calls, "SetProtocol")
    /\ pc' = "L313"
    /\ UNCHANGED << argc, i, retval, retLine, protocol, server, hresults >>
    /\ UNCHANGED parseVars
    /\ UNCHANGED histVars
    /\ UNCHANGED ioVars

\* IORedirectServer(port, onStdOut, onStdErr): the server object; its start
\* fails when the port is occupied by another listener.
ServerStart(port, occupied) ==
    [ state |-> "alive", port |-> port, startOk |-> ~occupied ]

\* ConstructServer with the interpreter test left out
ConstructServer_NoModeCheck ==
    /\ pc = "L313"
    /\ \E occupied \in BOOLEAN :
        server' = ServerStart(serverPort, occupied)
    /\ calls' = Append(calls, "IORedirectServer")
    /\ pc' = "L324"
    /\ UNCHANGED << argc, i, retval, retLine, debugger, protocol, hresults >>
    /\ UNCHANGED parseVars
    /\ UNCHANGED histVars
    /\ UNCHANGED ioVars

\* std::unique_ptr<IORedirectServer> server;
\* if (interpreterType != InterpreterCLI) server.reset(new IORedirectServer(serverPort, ...));
\* main examines no result of the construction.
ConstructServer ==
    /\ pc = "L313"
    /\ IF interpreterType # InterpreterCLI
       THEN /\ \E occupied \in BOOLEAN :
                server' = ServerStart(serverPort, occupied)
            /\ calls' = Append(calls, "IORedirectServer")
       ELSE UNCHANGED << server, calls >>
    /\ pc' = "L324"
    /\ UNCHANGED << argc, i, retval, retLine, debugger, protocol, hresults >>
    /\ UNCHANGED parseVars
    /\ UNCHANGED histVars
    /\ UNCHANGED ioVars

\* AttachWanted with the test left out
AttachWanted_Always == TRUE

\* if (pidDebuggee != 0)
AttachWanted == pidDebuggee # 0

CheckPid ==
    /\ pc = "L324"
    /\ pc' = IF AttachWanted THEN "L326" ELSE "L336"
    /\ UNCHANGED << argc, i, retval, retLine >>
    /\ UNCHANGED objVars
    /\ UNCHANGED parseVars
    /\ UNCHANGED histVars
    /\ UNCHANGED ioVars

\* CallInitialize followed directly by ConfigurationDone
CallInitialize_SkipAttach ==
    /\ pc = "L326"
    /\ \E hr \in HResults : hresults' = hresults \cup {<< "Initialize", hr >>}
    /\ calls' = Append(calls, "Initialize")
    /\ pc' = "L328"
    /\ UNCHANGED << argc, i, retval, retLine, debugger, protocol, server >>
    /\ UNCHANGED parseVars
    /\ UNCHANGED histVars
    /\ UNCHANGED ioVars

\* debugger.Initialize();  the result is discarded
CallInitialize ==
    /\ pc = "L326"
    /\ \E hr \in HResults : hresults' = hresults \cup {<< "Initialize", hr >>}
    /\ calls' = Append(calls, "Initialize")
    /\ pc' = "L327"
    /\ UNCHANGED << argc, i, retval, retLine, debugger, protocol, server >>
    /\ UNCHANGED parseVars
    /\ UNCHANGED histVars
    /\ UNCHANGED ioVars

\* debugger.Attach(pidDebuggee);  the result is discarded
CallAttach ==
    /\ pc = "L327"
    /\ \E hr \in HResults : hresults' = hresults \cup {<< "Attach", hr >>}
    /\ debugger' = [debugger EXCEPT !.pid = pidDebuggee]
    /\ calls' = Append(calls, "Attach")
    /\ pc' = "L328"
    /\ UNCHANGED << argc, i, retval, retLine, protocol, server >>
    /\ UNCHANGED parseVars
    /\ UNCHANGED histVars
    /\ UNCHANGED ioVars

\* AttachFailed with the status ignored
AttachFailed_Ignored(Status) == FALSE

\* if (FAILED(Status)) after HRESULT Status = debugger.ConfigurationDone();
AttachFailed(Status) == FAILED(Status)

\* HRESULT Status = debugger.ConfigurationDone();
\* if (FAILED(Status)) { ...; return EXIT_FAILURE; }
CallConfigurationDone ==
    /\ pc = "L328"
    /\ \E Status \in HResults :
        /\ hresults' = hresults \cup {<< "ConfigurationDone", Status >>}
        /\ IF AttachFailed(Status)
           THEN Return(332, EXIT_FAILURE)
           ELSE pc' = "L336" /\ UNCHANGED << retval, retLine >>
    /\ calls' = Append(calls, "ConfigurationDone")
    /\ UNCHANGED << argc, i, debugger, protocol, server >>
    /\ UNCHANGED parseVars
    /\ UNCHANGED histVars
    /\ UNCHANGED ioVars

\* protocol->CommandLoop();  (entered; it blocks until the client is done)
CallCommandLoop ==
    /\ pc = "L336"
    /\ calls' = Append(calls, "CommandLoop")
    /\ pc' = "CommandLoop"
    /\ UNCHANGED << argc, i, retval, retLine, debugger, protocol, server,
                    hresults >>
    /\ UNCHANGED parseVars
    /\ UNCHANGED histVars
    /\ UNCHANGED ioVars

\* CommandLoop returns; return EXIT_SUCCESS;
CommandLoopReturns ==
    /\ pc = "CommandLoop"
    /\ Return(337, EXIT_SUCCESS)
    /\ UNCHANGED << argc, i >>
    /\ UNCHANGED objVars
    /\ UNCHANGED parseVars
    /\ UNCHANGED histVars
    /\ UNCHANGED ioVars

\* --------------------------------------------------------------- teardown
\* Leaving main destroys its automatic objects in reverse order of
\* declaration: server (line 313), protocol (line 258), debugger (line 257).

ServerGone == server.state # "alive"
ProtocolGone == protocol.state # "alive"

\* ~unique_ptr<IORedirectServer>
DestroyServer ==
    /\ pc = "unwind"
    /\ server.state = "alive"
    /\ server' = [server EXCEPT !.state = "destroyed"]
    /\ calls' = Append(calls, "~IORedirectServer")
    /\ UNCHANGED << argc, i, pc, retval, retLine, debugger, protocol, hresults >>
    /\ UNCHANGED parseVars
    /\ UNCHANGED histVars
    /\ UNCHANGED ioVars

\* DestroyProtocol as if protocol were declared after server
DestroyProtocol_First ==
    /\ pc = "unwind"
    /\ protocol.state = "alive"
    /\ protocol' = [protocol EXCEPT !.state = "destroyed"]
    /\ calls' = Append(calls, "~Protocol")
    /\ UNCHANGED << argc, i, pc, retval, retLine, debugger, server, hresults >>
    /\ UNCHANGED parseVars
    /\ UNCHANGED histVars
    /\ UNCHANGED ioVars

\* ~unique_ptr<Protocol>
DestroyProtocol ==
    /\ pc = "unwind"
    /\ ServerGone
    /\ protocol.state = "alive"
    /\ protocol' = [protocol EXCEPT !.state = "destroyed"]
    /\ calls' = Append(calls, "~Protocol")
    /\ UNCHANGED << argc, i, pc, retval, retLine, debugger, server, hresults >>
    /\ UNCHANGED parseVars
    /\ UNCHANGED histVars
    /\ UNCHANGED ioVars

\* ~ManagedDebugger
DestroyDebugger ==
    /\ pc = "unwind"
    /\ ServerGone /\ ProtocolGone
    /\ debugger.state = "alive"
    /\ debugger' = [debugger EXCEPT !.state = "destroyed"]
    /\ calls' = Append(calls, "~ManagedDebugger")
    /\ UNCHANGED << argc, i, pc, retval, retLine, protocol, server, hresults >>
    /\ UNCHANGED parseVars
    /\ UNCHANGED histVars
    /\ UNCHANGED ioVars

\* the process exits with the returned status
Exit ==
    /\ pc = "unwind"
    /\ ServerGone /\ ProtocolGone
    /\ debugger.state # "alive"
    /\ pc' = "exited"
    /\ UNCHANGED << argc, i, retval, retLine >>
    /\ UNCHANGED objVars
    /\ UNCHANGED parseVars
    /\ UNCHANGED histVars
    /\ UNCHANGED ioVars

Exited == pc = "exited"
ExitStatus == retval

Bootstrap ==
    \/ ConstructDebugger
    \/ SelectMI
    \/ SelectVSCode
    \/ SelectCLI
    \/ SetProtocol
    \/ ConstructServer
    \/ CheckPid
    \/ CallInitialize
    \/ CallAttach
    \/ CallConfigurationDone
    \/ CallCommandLoop
    \/ CommandLoopReturns

Teardown ==
    \/ DestroyServer
    \/ DestroyProtocol
    \/ DestroyDebugger
    \/ Exit

\* ------------------------------------------- redirect callbacks and engine
\* The redirect server invokes the two callbacks given at lines 318-319 on
\* its own thread while it exists; the engine emits events on its own
\* threads through the sink pointer given by SetProtocol while it exists.

Texts == {"hello", ""}

OutputStdOut == "OutputStdOut"
OutputStdErr == "OutputStdErr"

\* OutputEvent(category, text)
OutputEvent(category, text) == [ category |-> category, text |-> text ]

\* protocol->EmitOutputEvent(event), on behalf of <from>
EmitOutputEvent(from, event) ==
    emitted' = Append(emitted, [ from |-> from, event |-> event ])

\* one invocation of a redirect callback: the record it leaves in redirected
Invoked(cb, text) == redirected' = Append(redirected, [ cb |-> cb, text |-> text ])

CallbackEnabled ==
    /\ server.state = "alive"
    /\ protocol.state = "alive"
    /\ pc \notin {"exited", "crashed"}
    /\ Len(emitted) < MaxEvents

\* EmitFromStdErr tagging the text as standard error
EmitFromStdErr_Tagged(text) ==
    EmitOutputEvent("stderr", OutputEvent(OutputStdErr, text))

\* [&protocol](const std::string& text) { protocol->EmitOutputEvent(OutputEvent(OutputStdOut, text)); }
EmitFromStdOut(text) ==
    EmitOutputEvent("stdout", OutputEvent(OutputStdOut, text))

\* [&protocol](const std::string& text) { protocol->EmitOutputEvent(OutputEvent(OutputStdOut, text)); }
EmitFromStdErr(text) ==
    EmitOutputEvent("stderr", OutputEvent(OutputStdOut, text))

\* the first callback, invoked with text captured from standard output
OnStdOut ==
    /\ CallbackEnabled
    /\ \E text \in Texts :
        /\ Invoked("stdout", text)
        /\ EmitFromStdOut(text)
    /\ UNCHANGED << argc, i, pc, retval, retLine, dangling >>
    /\ UNCHANGED objVars
    /\ UNCHANGED parseVars
    /\ UNCHANGED histVars

\* the second callback, invoked with text captured from standard error
OnStdErr ==
    /\ CallbackEnabled
    /\ \E text \in Texts :
        /\ Invoked("stderr", text)
        /\ EmitFromStdErr(text)
    /\ UNCHANGED << argc, i, pc, retval, retLine, dangling >>
    /\ UNCHANGED objVars
    /\ UNCHANGED parseVars
    /\ UNCHANGED histVars

\* the engine holds a sink pointer and is alive
EngineCanEmit ==
    /\ debugger.state = "alive"
    /\ debugger.sink # "null"
    /\ pc \notin {"exited", "crashed"}

\* an engine thread delivers an event to the sink it was given
EngineEmit ==
    /\ EngineCanEmit
    /\ protocol.state = "alive"
    /\ Len(emitted) < MaxEvents
    /\ EmitOutputEvent("engine", OutputEvent(OutputStdOut, "event"))
    /\ UNCHANGED << argc, i, pc, retval, retLine, redirected, dangling >>
    /\ UNCHANGED objVars
    /\ UNCHANGED parseVars
    /\ UNCHANGED histVars

\* an engine thread emits after the sink was destroyed: the pointer given at
\* line 311 dangles, and the process either crashes or carries on
EngineEmitDangling ==
    /\ EngineCanEmit
    /\ protocol.state = "destroyed"
    /\ ~dangling
    /\ dangling' = TRUE
    /\ \E crash \in BOOLEAN : pc' = IF crash THEN "crashed" ELSE pc
    /\ UNCHANGED << argc, i, retval, retLine, redirected, emitted >>
    /\ UNCHANGED objVars
    /\ UNCHANGED parseVars
    /\ UNCHANGED histVars

Threads ==
    \/ OnStdOut
    \/ OnStdErr
    \/ EngineEmit
    \/ EngineEmitDangling

\* main alone
Next == Scan \/ Bootstrap \/ Teardown

Spec == Init /\ [][Next]_vars

\* main together with the redirect server's and the engine's threads
InitThreads == Init /\ argc <= MaxThreadArgc

NextThreads == Next \/ Threads

SpecThreads == InitThreads /\ [][NextThreads]_vars

\* ------------------------------------------------------------- properties

EngineFailure(op) == \E p \in hresults : p[1] = op /\ FAILED(p[2])

AnyEngineFailure ==
    \/ EngineFailure("Initialize")
    \/ EngineFailure("Attach")
    \/ EngineFailure("ConfigurationDone")

\* the return statements of the option scan and of the variant switch that
\* report a configuration error
ConfigErrorLines == {140, 147, 226, 240, 251, 269, 299}

InfoLines == {179, 184, 192}

\* C1: when Initialize, Attach or ConfigurationDone has returned a failure
\* result, CommandLoop is never called and the process exits with failure
\* status.
C1_AnyAttachFailureAborts ==
    AnyEngineFailure =>
        /\ ~Called("CommandLoop")
        /\ Exited => ExitStatus = EXIT_FAILURE

\* the switch over interpreterType has been executed
SwitchDone == Called("ManagedDebugger") /\ pc # "L260"

LifecycleCalls ==
    {"SetProtocol", "Initialize", "Attach", "ConfigurationDone"}

\* C2: with engine logging requested, a mode other than VSCode ends in a
\* failure return with no variant, no engine lifecycle call, no redirect
\* server and no CommandLoop; in VSCode mode the bootstrap proceeds and
\* EngineLogging is enabled on the variant with the given path.
C2_EngineLoggingOnlyVSCode ==
    (SwitchDone /\ engineLogging) =>
        IF interpreterType # InterpreterVSCode
        THEN /\ pc \in {"unwind", "exited"}
             /\ retLine \in {269, 299}
             /\ retval = EXIT_FAILURE
             /\ protocol.state = "null"
             /\ server.state = "null"
             /\ \A k \in 1..Len(calls) :
                    calls[k] \notin LifecycleCalls
                        \cup {"MIProtocol", "VSCodeProtocol", "CLIProtocol",
                              "IORedirectServer", "CommandLoop"}
        ELSE /\ retLine \notin {269, 299}
             /\ protocol.kind = "VSCodeProtocol"
             /\ protocol.logging
             /\ protocol.logPath = logFilePath
             /\ CountOf("EngineLogging") = 1

C2_Witness ==
    /\ Exited
    /\ engineLogging
    /\ interpreterType = InterpreterCLI
    /\ retLine = 299

\* C3: when the start of the redirect server failed, the attach sub-sequence
\* is not performed, CommandLoop is never called and the process exits with
\* failure status.
C3_StartFailureAborts ==
    (server.state # "null" /\ ~server.startOk) =>
        /\ ~Called("Initialize")
        /\ ~Called("CommandLoop")
        /\ Exited => ExitStatus = EXIT_FAILURE

Before(a, b) == Called(a) /\ Called(b) /\ FirstOf(a) < FirstOf(b)

\* C4: Initialize, Attach(pidDebuggee), ConfigurationDone are called in that
\* order, each at most once and, once the sub-sequence is over, each exactly
\* once; all after SetProtocol and all before CommandLoop.
C4_AttachOrder ==
    /\ CountOf("Initialize") <= 1
    /\ CountOf("Attach") <= 1
    /\ CountOf("ConfigurationDone") <= 1
    /\ Called("Initialize") => Before("SetProtocol", "Initialize")
    /\ Called("Attach") =>
        /\ Before("Initialize", "Attach")
        /\ debugger.pid = pidDebuggee
    /\ Called("ConfigurationDone") => Before("Attach", "ConfigurationDone")
    /\ (Called("Initialize") /\ pc \in {"L336", "CommandLoop", "unwind", "exited"}) =>
        /\ CountOf("Initialize") = 1
        /\ CountOf("Attach") = 1
        /\ CountOf("ConfigurationDone") = 1
    /\ (Called("Initialize") /\ Called("CommandLoop")) =>
        Before("ConfigurationDone", "CommandLoop")
    /\ (AttachWanted /\ Called("CommandLoop")) => Called("Initialize")

C4_Witness ==
    /\ Called("CommandLoop")
    /\ Before("ConfigurationDone", "CommandLoop")
    /\ debugger.pid = 7

\* C5: whenever an --attach <pid> pair was accepted by the option scan, the
\* command loop is entered only after Initialize, Attach and
\* ConfigurationDone have been called.
C5_AcceptedAttachRuns ==
    (attachAccepted /\ Called("CommandLoop")) =>
        /\ Before("Initialize", "CommandLoop")
        /\ Before("Attach", "CommandLoop")
        /\ Before("ConfigurationDone", "CommandLoop")

\* line 321 has been passed
PastServerStep == Called("SetProtocol") /\ pc # "L313"

\* C6: in CLI mode no redirect server is constructed whatever the server
\* option; in MI and VSCode mode exactly one is constructed in every run that
\* gets past variant selection.
C6_ServerIffNotCLI ==
    /\ CountOf("IORedirectServer") <= 1
    /\ (Called("IORedirectServer") \/ server.state # "null") =>
        interpreterType # InterpreterCLI
    /\ PastServerStep =>
        IF interpreterType = InterpreterCLI
        THEN CountOf("IORedirectServer") = 0 /\ server.state = "null"
        ELSE CountOf("IORedirectServer") = 1 /\ server.state # "null"

C6_Witness ==
    /\ interpreterType = InterpreterCLI
    /\ lastServer = "--server=4712"
    /\ Called("CommandLoop")
    /\ server.state = "null"

\* the number written in the last --server option; 0 when there is none or
\* it carries no number
GivenPort ==
    IF lastServer \in {"none", "--server"}
    THEN 0
    ELSE Strtoul(After(lastServer, "--server=")).value

C8_ServerStoppedFirst ==
    /\ server.state = "alive" => protocol.state = "alive"
    /\ (Exited /\ Called("IORedirectServer")) =>
        /\ server.state = "destroyed"
        /\ CountOf("~IORedirectServer") = 1
    /\ (Called("~Protocol") /\ Called("IORedirectServer")) =>
        Before("~IORedirectServer", "~Protocol")
    /\ (pc = "unwind" /\ Called("IORedirectServer")) => retLine \in {332, 337}

C8_Witness ==
    /\ Exited
    /\ retLine = 332
    /\ Before("~IORedirectServer", "~Protocol")

\* C9: at the moment a configuration-error return is taken, no engine
\* object, no protocol variant and no redirect server exists.
C9_ConfigErrorsBeforeObjects ==
    (pc = "unwind" /\ retLine \in ConfigErrorLines) =>
        /\ ~Called("ManagedDebugger")
        /\ protocol.state = "null"
        /\ server.state = "null"

ResolvedMode ==
    IF lastInterpreter = "--interpreter=vscode" THEN InterpreterVSCode
    ELSE IF lastInterpreter = "--interpreter=cli" THEN InterpreterCLI
    ELSE InterpreterMI

KindOfMode(mode) ==
    IF mode = InterpreterVSCode THEN "VSCodeProtocol"
    ELSE IF mode = InterpreterCLI THEN "CLIProtocol"
    ELSE "MIProtocol"

VariantsConstructed ==
    CountOf("MIProtocol") + CountOf("VSCodeProtocol") + CountOf("CLIProtocol")

\* C11: at most one variant and at most one redirect server are constructed;
\* the variant is the one of the resolved mode (MI by default, else the mode
\* of the last --interpreter= option); the mode stays what it was when the
\* variant was constructed.
C11_OneVariantOfResolvedMode ==
    /\ VariantsConstructed <= 1
    /\ CountOf("IORedirectServer") <= 1
    /\ lastInterpreter \in
        {"none", "--interpreter=mi", "--interpreter=vscode", "--interpreter=cli"}
    /\ protocol.state = "null" <=> VariantsConstructed = 0
    /\ protocol.state # "null" =>
        /\ protocol.kind = KindOfMode(ResolvedMode)
        /\ CountOf(KindOfMode(ResolvedMode)) = 1
        /\ interpreterType = ResolvedMode

C11_Witness ==
    /\ Called("CommandLoop")
    /\ lastInterpreter = "--interpreter=cli"
    /\ protocol.kind = "CLIProtocol"
    /\ interpreterType = InterpreterCLI

StepRank(op) ==
    CASE op = "ManagedDebugger" -> 0
      [] op \in {"MIProtocol", "VSCodeProtocol", "CLIProtocol"} -> 1
      [] op = "SetDebugger" -> 2
      [] op = "EngineLogging" -> 3
      [] op \in {"SetLaunchCommand", "OverrideLaunchCommand"} -> 4
      [] op = "SetProtocol" -> 5
      [] op = "IORedirectServer" -> 6
      [] op = "Initialize" -> 7
      [] op = "Attach" -> 8
      [] op = "ConfigurationDone" -> 9
      [] op = "CommandLoop" -> 10
      [] op = "~IORedirectServer" -> 11
      [] op = "~Protocol" -> 12
      [] op = "~ManagedDebugger" -> 13

\* C12: variant construction, SetDebugger, SetProtocol, server start, attach
\* sub-sequence and CommandLoop occur in that order, each at most once and
\* none after a later one; CommandLoop is called only with the sink bound to
\* the engine and the engine bound to the sink.
C12_ForwardPipeline ==
    /\ \A j, k \in 1..Len(calls) :
        j < k => StepRank(calls[j]) < StepRank(calls[k])
    /\ Called("CommandLoop") =>
        /\ Before("SetDebugger", "SetProtocol")
        /\ Before("SetProtocol", "CommandLoop")
        /\ protocol.debuggerSet
        /\ debugger.sink = protocol.kind
        /\ protocol.kind # "none"

C12_Witness ==
    /\ Called("CommandLoop")
    /\ Called("IORedirectServer")
    /\ Called("ConfigurationDone")
    /\ pc = "exited"

LaunchSupplied == afterSep # << >> /\ afterSep[1] # ""

LaunchOps == {"SetLaunchCommand", "OverrideLaunchCommand"}

\* C13: a launch command given after the separator is pre-seeded on the
\* variant exactly once, before CommandLoop, by SetLaunchCommand in MI and
\* CLI mode and by OverrideLaunchCommand in VSCode mode, with the program and
\* its arguments in command-line order; without one no launch operation is
\* called.
C13_LaunchPreseeded ==
    /\ protocol.state = "null" =>
        CountOf("SetLaunchCommand") + CountOf("OverrideLaunchCommand") = 0
    /\ protocol.state # "null" =>
        LET op == IF interpreterType = InterpreterVSCode
                  THEN "OverrideLaunchCommand" ELSE "SetLaunchCommand"
        IN  IF LaunchSupplied
            THEN /\ CountOf(op) = 1
                 /\ \A other \in LaunchOps \ {op} : CountOf(other) = 0
                 /\ protocol.launchOp = op
                 /\ protocol.launchFile = afterSep[1]
                 /\ protocol.launchArgs = Tail(afterSep)
                 /\ Called("CommandLoop") => Before(op, "CommandLoop")
            ELSE /\ \A any \in LaunchOps : CountOf(any) = 0
                 /\ protocol.launchOp = "none"

C13_Witness ==
    /\ Called("CommandLoop")
    /\ interpreterType = InterpreterVSCode
    /\ protocol.launchOp = "OverrideLaunchCommand"
    /\ protocol.launchFile = "prog"
    /\ protocol.launchArgs = << "--help" >>

\* C14: with no --attach given, Initialize, Attach and ConfigurationDone are
\* never called, and the call made just before CommandLoop is the server
\* construction (SetProtocol in CLI mode).
C14_NoPidNoAttach ==
    ~attachAccepted =>
        /\ ~Called("Initialize")
        /\ ~Called("Attach")
        /\ ~Called("ConfigurationDone")
        /\ hresults = {}
        /\ pc \notin {"L326", "L327", "L328"}
        /\ Called("CommandLoop") =>
            calls[FirstOf("CommandLoop") - 1] =
                IF interpreterType = InterpreterCLI
                THEN "SetProtocol" ELSE "IORedirectServer"

C14_Witness ==
    /\ ~attachAccepted
    /\ Called("CommandLoop")
    /\ Called("IORedirectServer")

ScanReturnLines == {140, 147, 179, 184, 192, 226, 240, 251}

\* C16: once -- is scanned the scan is over: with no word after it the run
\* fails at line 240; otherwise the next word is the program, all remaining
\* words are its arguments in order, and none of them is treated as an option.
C16_SeparatorEndsScan ==
    sepAt # 0 =>
        /\ pc # "scan"
        /\ IF sepAt + 1 >= argc
           THEN /\ retLine = 240
                /\ retval = EXIT_FAILURE
                /\ afterSep = << >>
                /\ ~Called("ManagedDebugger")
           ELSE /\ Len(afterSep) = argc - 1 - sepAt
                /\ execFile = afterSep[1]
                /\ execArgs = Tail(afterSep)
                /\ i = argc
                /\ retLine \notin ScanReturnLines

C16_Witness ==
    /\ afterSep = << "prog", "--help", "--attach" >>
    /\ Called("CommandLoop")
    /\ ~attachAccepted

C19_PortNotTruncated ==
    (server.state # "null" /\ lastServer \notin {"none", "--server"}) =>
        server.port = GivenPort

IsFromCallback(e) == e.from \in {"stdout", "stderr"}

FromCallbacks == SelectSeq(emitted, IsFromCallback)

\* C15: every invocation of either redirect callback yields exactly one
\* EmitOutputEvent call, carrying the callback's text unchanged and tagged
\* OutputStdOut, for the standard-error callback as for the standard-output
\* one.
C15_RedirectedTaggedStdOut ==
    /\ Len(FromCallbacks) = Len(redirected)
    /\ \A k \in 1..Len(redirected) :
        /\ FromCallbacks[k].from = redirected[k].cb
        /\ FromCallbacks[k].event.text = redirected[k].text
        /\ FromCallbacks[k].event.category = OutputStdOut

C15_Witness ==
    /\ Len(redirected) = 2
    /\ redirected[1] = [ cb |-> "stderr", text |-> "hello" ]
    /\ redirected[2].cb = "stdout"
    /\ emitted[1].event = OutputEvent(OutputStdOut, "hello")

\* C18: the engine never uses its sink pointer after the sink has been
\* destroyed.
C18_NoEmitAfterSinkDestroyed ==
    ~dangling
====
